---- MODULE Spec2Model ----
(***************************************************************************)
(* A model of go-traceroute (traceroute.go): Tracer.Trace, the listener    *)
(* goroutine it starts for every hop, Tracer.receiveICMP, and the consumer *)
(* loop of the README's asynchronous example.                              *)
(*                                                                         *)
(* The orchestrator (Trace) and the listener worker (the goroutine of      *)
(* lines 107-129) are two processes that interleave statement by           *)
(* statement.  The network and the operating system are nondeterministic:  *)
(* every call that can fail may fail, and the listener's read may return   *)
(* any packet or run into its deadline at any moment, also before the      *)
(* probe has been written (receiveICMP does not correlate replies).        *)
(* Latency and Host do not influence control flow and are left out of Hop. *)
(***************************************************************************)
EXTENDS Integers, Sequences, FiniteSets, TLC

VARIABLES
    Address,      \* Tracer.Address
    Port,         \* Tracer.Port
    StartTTL,     \* Tracer.StartTTL
    MaxTTL,       \* Tracer.MaxTTL
    ResultChan,   \* Tracer.ResultChan: the hops buffered in the channel
    pc,           \* position of Trace
    ttl,          \* Trace's local ttl (shared with the worker's closure)
    wg,           \* Trace's WaitGroup counter
    cancelChan,   \* number of values buffered in cancelChan (capacity 1)
    traceResult,  \* traceResult.Hops (shared with the worker's closure)
    retResult,    \* the TraceResult returned by Trace
    retErr,       \* the error returned by Trace ("nil" for nil)
    outgoing,     \* the UDP socket of this iteration (its ttl) or NoConn
    ttlSet,       \* whether IP_TTL was applied to the socket `outgoing`
    openConns,    \* UDP sockets that are open
    deferred,     \* stack of deferred outgoing.Close() calls
    wpc,          \* position of the listener worker
    icmpOpen,     \* whether the worker's ICMP socket is open
    pkt,          \* the packet ReadFrom returned to the worker
    rcv,          \* what receiveICMP returned: hopAddr, response, err
    hop,          \* the worker's local hop
    consumer,     \* the README's consumer loop: "off", "watching", "stopped"
    \* history, for stating the properties
    probes,       \* the datagrams written so far: [TTL, ttlSet]
    published,    \* every hop ever sent on ResultChan, in order
    outcomes,     \* what receiveICMP returned in each worker: [TTL, kind]
    opened,       \* number of sockets ever opened (UDP and ICMP)
    spawned,      \* number of listener workers ever started
    iterations,   \* number of iterations of Trace's for loop begun
    retPath       \* the return statement Trace left by

vars == <<Address, Port, StartTTL, MaxTTL, ResultChan, pc, ttl, wg,
          cancelChan, traceResult, retResult, retErr, outgoing, ttlSet,
          openConns, deferred, wpc, icmpOpen, pkt, rcv, hop, consumer,
          probes, published, outcomes, opened, spawned, iterations, retPath>>

confVars == <<Address, Port, StartTTL, MaxTTL>>
workerVars == <<wpc, icmpOpen, pkt, rcv, hop>>
traceVars == <<pc, ttl, retResult, retErr, outgoing, ttlSet, openConns,
               deferred, iterations, retPath>>

----------------------------------------------------------------------------
(* Bounds of the model *)

MaxTTLBound == 3      \* MaxTTL is drawn from 0..MaxTTLBound
MaxStartTTL == 2      \* StartTTL is drawn from 0..MaxStartTTL

(* Program constants *)

UnexpectedICMPType == -1
ICMPTypeTimeExceeded == 11
ICMPTypeDestinationUnreachable == 3
DefaultPort == 33434
MaxPort == 65535
ChanCap == 1024
CancelCap == 1

Addresses == {"", "localhost"}
Ports == {0, DefaultPort, MaxPort + 1}

\* ICMP types a received message may carry: echo reply, destination
\* unreachable, redirect, time exceeded.
ICMPTypes == {0, 3, 5, 11}

NoConn == 0
NoPacket == [kind |-> "none", type |-> 0, peer |-> ""]
NoReturn == [hopAddr |-> "", response |-> 0, err |-> "nil"]
NoHop == [TTL |-> 0, Address |-> "", Reachable |-> FALSE]

\* What ReadFrom can hand to the worker: a well-formed ICMP message of some
\* type from some peer, or bytes that ParseMessage rejects.
Packets ==
    [kind : {"icmp"}, type : ICMPTypes, peer : {"10.0.0.1"}]
      \cup {[kind |-> "malformed", type |-> 0, peer |-> "10.0.0.1"]}

----------------------------------------------------------------------------
(* Pure parts of the code *)

\* ValidateConfig without the upper limit of the port.
ValidateConfigNoUpperPort(startTTL, address, port) ==
    IF startTTL < 1 THEN "value of StartTTL must be at least 1"
    ELSE IF address = "" THEN "value of Address must be specified"
    ELSE IF port < 1 THEN "value of Port must be between 1 and 65535"
    ELSE "nil"

\* The three checks at the head of Trace, in order; "nil" when all pass.
ValidateConfig(startTTL, address, port) ==
    IF startTTL < 1 THEN "value of StartTTL must be at least 1"
    ELSE IF address = "" THEN "value of Address must be specified"
    ELSE IF port < 1 \/ port > MaxPort
         THEN "value of Port must be between 1 and 65535"
    ELSE "nil"

\* The switch on rawMessage.Type that ends receiveICMP.
ClassifyMessage(type, peer) ==
    IF type = ICMPTypeTimeExceeded
      THEN [hopAddr |-> peer, response |-> ICMPTypeTimeExceeded, err |-> "nil"]
    ELSE IF type = ICMPTypeDestinationUnreachable
      THEN [hopAddr |-> peer, response |-> ICMPTypeDestinationUnreachable,
            err |-> "nil"]
    ELSE [hopAddr |-> "*", response |-> UnexpectedICMPType,
          err |-> "unexpected ICMP message type received"]

\* The error returns of receiveICMP: return "*", 0, fmt.Errorf(...).
ListenerError(msg) == [hopAddr |-> "*", response |-> 0, err |-> msg]

\* The name under which an outcome of receiveICMP is kept in the history.
OutcomeKind(r) ==
    IF r.response = UnexpectedICMPType THEN "unexpected"
    ELSE IF r.response = ICMPTypeTimeExceeded THEN "timeExceeded"
    ELSE "destUnreachable"

\* RecordsHop that records the two classified responses only.
RecordsHopOnClassifiedOnly(response) ==
    response \in {ICMPTypeTimeExceeded, ICMPTypeDestinationUnreachable}

\* RecordsHop that records whatever receiveICMP returned.
RecordsHopAlways(response) == TRUE

\* if response != UnexpectedICMPType
RecordsHop(response) == response # UnexpectedICMPType

\* MakeHop with Reachable set for everything but "destination unreachable".
MakeHopReachableUnlessUnreachable(t, hopAddr, response) ==
    [TTL |-> t, Address |-> hopAddr,
     Reachable |-> (response # ICMPTypeDestinationUnreachable)]

\* hop := Hop{TTL: ttl, Address: hopAddr, Reachable: response == TimeExceeded}
MakeHop(t, hopAddr, response) ==
    [TTL |-> t, Address |-> hopAddr,
     Reachable |-> (response = ICMPTypeTimeExceeded)]

\* StopsTrace that looks at the error only.
StopsTraceOnErrorOnly(err, response) == err # "nil"

\* StopsTrace that looks at the response type only.
StopsTraceOnUnreachableOnly(err, response) ==
    response = ICMPTypeDestinationUnreachable

\* if err != nil || response == ipv4.ICMPTypeDestinationUnreachable
StopsTrace(err, response) ==
    err # "nil" \/ response = ICMPTypeDestinationUnreachable

\* ReachedMaxTTL off by one: the loop runs once more.
ReachedMaxTTLOffByOne(t, maxTTL) == t > maxTTL + 1

\* if ttl > t.MaxTTL
ReachedMaxTTL(t, maxTTL) == t > maxTTL

Range(s) == {s[i] : i \in 1..Len(s)}

----------------------------------------------------------------------------
(* Initial state: a configured Tracer on which Trace is about to be called *)

\* No call of Trace has begun: its locals and the history are empty.
NotStarted ==
    /\ pc = "validate"
    /\ ttl = 0
    /\ wg = 0
    /\ cancelChan = 0
    /\ traceResult = <<>>
    /\ retResult = <<>>
    /\ retErr = "nil"
    /\ outgoing = NoConn
    /\ ttlSet = FALSE
    /\ openConns = {}
    /\ deferred = <<>>
    /\ wpc = "none"
    /\ icmpOpen = FALSE
    /\ pkt = NoPacket
    /\ rcv = NoReturn
    /\ hop = NoHop
    /\ probes = <<>>
    /\ published = <<>>
    /\ outcomes = <<>>
    /\ opened = 0
    /\ spawned = 0
    /\ iterations = 0
    /\ retPath = "none"

Init ==
    /\ Address \in Addresses
    /\ Port \in Ports
    /\ StartTTL \in 0..MaxStartTTL
    /\ MaxTTL \in 0..MaxTTLBound
    /\ consumer \in {"off", "watching"}
    /\ ResultChan = <<>>
    /\ NotStarted

----------------------------------------------------------------------------
(* Trace *)

\* A return statement of Trace: the result values are set, then the deferred
\* closures run and close the sockets they were registered for.
Return(result, err, path) ==
    /\ pc' = "done"
    /\ retResult' = result
    /\ retErr' = err
    /\ retPath' = path
    /\ openConns' = openConns \ Range(deferred)
    /\ deferred' = <<>>

\* Lines 58-71: validation, then the locals of a trace.
Validate ==
    /\ pc = "validate"
    /\ LET e == ValidateConfig(StartTTL, Address, Port) IN
         IF e # "nil"
           THEN /\ Return(<<>>, e, "validation")
                /\ UNCHANGED <<ttl, wg, cancelChan, traceResult>>
           ELSE /\ ttl' = StartTTL
                /\ wg' = 0
                /\ cancelChan' = 0
                /\ traceResult' = <<>>
                /\ pc' = "resolve"
                /\ UNCHANGED <<retResult, retErr, retPath, openConns, deferred>>
    /\ UNCHANGED <<confVars, ResultChan, outgoing, ttlSet, workerVars,
                   consumer, probes, published, outcomes, opened, spawned,
                   iterations>>

\* Lines 73-77: head of the loop, net.ResolveUDPAddr.
ResolveUDPAddr ==
    /\ pc = "resolve"
    /\ iterations' = iterations + 1
    /\ \E ok \in BOOLEAN :
         IF ok
           THEN /\ pc' = "dial"
                /\ UNCHANGED <<retResult, retErr, retPath, openConns, deferred>>
           ELSE Return(traceResult, "resolving error", "resolve")
    /\ UNCHANGED <<confVars, ResultChan, ttl, wg, cancelChan, traceResult,
                   outgoing, ttlSet, workerVars, consumer, probes, published,
                   outcomes, opened, spawned>>

\* Lines 79-82: net.DialUDP.
DialUDP ==
    /\ pc = "dial"
    /\ \E ok \in BOOLEAN :
         IF ok
           THEN /\ pc' = "syscallconn"
                /\ outgoing' = ttl
                /\ ttlSet' = FALSE
                /\ openConns' = openConns \cup {ttl}
                /\ opened' = opened + 1
                /\ UNCHANGED <<retResult, retErr, retPath, deferred>>
           ELSE /\ Return(traceResult, "dial error", "dial")
                /\ UNCHANGED <<outgoing, ttlSet, opened>>
    /\ UNCHANGED <<confVars, ResultChan, ttl, wg, cancelChan, traceResult,
                   workerVars, consumer, probes, published, outcomes, spawned,
                   iterations>>

\* Lines 84-87: outgoing.SyscallConn.
SyscallConn ==
    /\ pc = "syscallconn"
    /\ \E ok \in BOOLEAN :
         IF ok
           THEN /\ pc' = "control"
                /\ UNCHANGED <<retResult, retErr, retPath, openConns, deferred>>
           ELSE Return(traceResult, "syscall connection error", "syscallconn")
    /\ UNCHANGED <<confVars, ResultChan, ttl, wg, cancelChan, traceResult,
                   outgoing, ttlSet, workerVars, consumer, probes, published,
                   outcomes, opened, spawned, iterations>>

\* Lines 88-103: rawOutgoing.Control runs the closure that sets IP_TTL.  An
\* error of SetsockoptInt is assigned to the closure's own err and printed;
\* only an error of Control itself reaches Trace's err.  Then the close of
\* the socket is deferred to the return of Trace.
Control ==
    /\ pc = "control"
    /\ \E res \in {"ok", "setsockopt failed", "control failed"} :
         IF res = "control failed"
           THEN /\ Return(traceResult, "syscall connection error", "control")
                /\ UNCHANGED ttlSet
           ELSE /\ ttlSet' = (res = "ok")
                /\ deferred' = <<outgoing>> \o deferred
                /\ pc' = "go"
                /\ UNCHANGED <<retResult, retErr, retPath, openConns>>
    /\ UNCHANGED <<confVars, ResultChan, ttl, wg, cancelChan, traceResult,
                   outgoing, workerVars, consumer, probes, published,
                   outcomes, opened, spawned, iterations>>

\* Lines 105-107: wg.Add(1) and the go statement.
GoListen ==
    /\ pc = "go"
    /\ wg' = wg + 1
    /\ wpc' = "listen"
    /\ spawned' = spawned + 1
    /\ pc' = "write"
    /\ UNCHANGED <<confVars, ResultChan, ttl, cancelChan, traceResult,
                   retResult, retErr, outgoing, ttlSet, openConns, deferred,
                   icmpOpen, pkt, rcv, hop, consumer, probes, published,
                   outcomes, opened, iterations, retPath>>

\* Lines 131-134: outgoing.Write.  On failure Trace returns without waiting
\* for the worker: traceResult is read while the worker may still append
\* (an unsynchronised read).  Statements interleave as wholes here, so the
\* returned result is the one before or the one after the worker's append.
Write ==
    /\ pc = "write"
    /\ \E ok \in BOOLEAN :
         IF ok
           THEN /\ probes' = Append(probes, [TTL |-> ttl, ttlSet |-> ttlSet])
                /\ pc' = "wait"
                /\ UNCHANGED <<retResult, retErr, retPath, openConns, deferred>>
           ELSE /\ Return(traceResult, "write error", "write")
                /\ UNCHANGED probes
    /\ UNCHANGED <<confVars, ResultChan, ttl, wg, cancelChan, traceResult,
                   outgoing, ttlSet, workerVars, consumer, published,
                   outcomes, opened, spawned, iterations>>

\* Wait that does not join the worker.
WaitWithoutJoin ==
    /\ pc = "wait"
    /\ pc' = "advance"
    /\ UNCHANGED <<confVars, ResultChan, ttl, wg, cancelChan, traceResult,
                   retResult, retErr, outgoing, ttlSet, openConns, deferred,
                   workerVars, consumer, probes, published, outcomes, opened,
                   spawned, iterations, retPath>>

\* Line 136: wg.Wait().
Wait ==
    /\ pc = "wait"
    /\ wg = 0
    /\ pc' = "advance"
    /\ UNCHANGED <<confVars, ResultChan, ttl, wg, cancelChan, traceResult,
                   retResult, retErr, outgoing, ttlSet, openConns, deferred,
                   workerVars, consumer, probes, published, outcomes, opened,
                   spawned, iterations, retPath>>

\* Lines 137-140 and 148: ttl++, the break at MaxTTL and the return after
\* the loop.
Advance ==
    /\ pc = "advance"
    /\ ttl' = ttl + 1
    /\ IF ReachedMaxTTL(ttl + 1, MaxTTL)
         THEN Return(traceResult, "nil", "maxttl")
         ELSE /\ pc' = "select"
              /\ UNCHANGED <<retResult, retErr, retPath, openConns, deferred>>
    /\ UNCHANGED <<confVars, ResultChan, wg, cancelChan, traceResult,
                   outgoing, ttlSet, workerVars, consumer, probes, published,
                   outcomes, opened, spawned, iterations>>

\* Select that does not look at cancelChan and goes on with the loop.
SelectIgnoresCancel ==
    /\ pc = "select"
    /\ pc' = "resolve"
    /\ UNCHANGED <<confVars, ResultChan, ttl, wg, cancelChan, traceResult,
                   retResult, retErr, outgoing, ttlSet, openConns, deferred,
                   workerVars, consumer, probes, published, outcomes, opened,
                   spawned, iterations, retPath>>

\* Select that hands the listener's failure to the caller.
SelectPropagatesError ==
    /\ pc = "select"
    /\ IF cancelChan > 0
         THEN /\ cancelChan' = cancelChan - 1
              /\ Return(traceResult, "read from error", "cancel")
         ELSE /\ pc' = "resolve"
              /\ UNCHANGED <<cancelChan, retResult, retErr, retPath,
                             openConns, deferred>>
    /\ UNCHANGED <<confVars, ResultChan, ttl, wg, traceResult, outgoing,
                   ttlSet, workerVars, consumer, probes, published, outcomes,
                   opened, spawned, iterations>>

\* Lines 141-145: the non-blocking receive from cancelChan.
Select ==
    /\ pc = "select"
    /\ IF cancelChan > 0
         THEN /\ cancelChan' = cancelChan - 1
              /\ Return(traceResult, "nil", "cancel")
         ELSE /\ pc' = "resolve"
              /\ UNCHANGED <<cancelChan, retResult, retErr, retPath,
                             openConns, deferred>>
    /\ UNCHANGED <<confVars, ResultChan, ttl, wg, traceResult, outgoing,
                   ttlSet, workerVars, consumer, probes, published, outcomes,
                   opened, spawned, iterations>>

TraceStep ==
    \/ Validate
    \/ ResolveUDPAddr
    \/ DialUDP
    \/ SyscallConn
    \/ Control
    \/ GoListen
    \/ Write
    \/ Wait
    \/ Advance
    \/ Select

----------------------------------------------------------------------------
(* The listener worker: the goroutine of lines 107-129 and receiveICMP *)

\* receiveICMP returns r; the deferred c.Close() has run when `closes`.
ReceiveReturns(r, kind, closes) ==
    /\ rcv' = r
    /\ icmpOpen' = IF closes THEN FALSE ELSE icmpOpen
    /\ outcomes' = Append(outcomes, [TTL |-> ttl, kind |-> kind])
    /\ wpc' = "record"

\* Lines 154-163: icmp.ListenPacket.
ListenPacket ==
    /\ wpc = "listen"
    /\ \E ok \in BOOLEAN :
         IF ok
           THEN /\ icmpOpen' = TRUE
                /\ opened' = opened + 1
                /\ wpc' = "deadline"
                /\ UNCHANGED <<rcv, outcomes>>
           ELSE /\ ReceiveReturns(ListenerError("listen packet error"),
                                  "listen", FALSE)
                /\ UNCHANGED opened
    /\ UNCHANGED <<confVars, ResultChan, traceVars, wg, cancelChan,
                   traceResult, pkt, hop, consumer, probes, published,
                   spawned>>

\* Lines 165-168: c.SetReadDeadline.
SetReadDeadline ==
    /\ wpc = "deadline"
    /\ \E ok \in BOOLEAN :
         IF ok
           THEN /\ wpc' = "read"
                /\ UNCHANGED <<rcv, icmpOpen, outcomes>>
           ELSE ReceiveReturns(ListenerError("set read deadline error"),
                               "deadline", TRUE)
    /\ UNCHANGED <<confVars, ResultChan, traceVars, wg, cancelChan,
                   traceResult, pkt, hop, consumer, probes, published,
                   opened, spawned>>

\* Lines 170-174: c.ReadFrom ends with a packet, at the deadline, or with
\* another read error.
ReadFrom ==
    /\ wpc = "read"
    /\ \/ \E p \in Packets :
            /\ pkt' = p
            /\ wpc' = "parse"
            /\ UNCHANGED <<rcv, icmpOpen, outcomes>>
       \/ \E kind \in {"timeout", "readfail"} :
            /\ ReceiveReturns(ListenerError("read from error"), kind, TRUE)
            /\ UNCHANGED pkt
    /\ UNCHANGED <<confVars, ResultChan, traceVars, wg, cancelChan,
                   traceResult, hop, consumer, probes, published, opened,
                   spawned>>

\* Lines 176-192: icmp.ParseMessage and the switch on the message type.
ParseMessage ==
    /\ wpc = "parse"
    /\ IF pkt.kind = "malformed"
         THEN ReceiveReturns(ListenerError("parse message error"), "parse",
                             TRUE)
         ELSE LET r == ClassifyMessage(pkt.type, pkt.peer) IN
                ReceiveReturns(r, OutcomeKind(r), TRUE)
    /\ pkt' = NoPacket
    /\ UNCHANGED <<confVars, ResultChan, traceVars, wg, cancelChan,
                   traceResult, hop, consumer, probes, published, opened,
                   spawned>>

\* Lines 111-123: the hop is built from the closure's ttl and appended to
\* the closure's traceResult.
RecordHop ==
    /\ wpc = "record"
    /\ IF RecordsHop(rcv.response)
         THEN /\ hop' = MakeHop(ttl, rcv.hopAddr, rcv.response)
              /\ traceResult' = Append(traceResult, hop')
              /\ wpc' = "publish"
         ELSE /\ wpc' = "signal"
              /\ UNCHANGED <<hop, traceResult>>
    /\ UNCHANGED <<confVars, ResultChan, traceVars, wg, cancelChan, icmpOpen,
                   pkt, rcv, consumer, probes, published, outcomes, opened,
                   spawned>>

\* Line 124: t.ResultChan <- hop, which blocks while the buffer is full.
Publish ==
    /\ wpc = "publish"
    /\ Len(ResultChan) < ChanCap
    /\ ResultChan' = Append(ResultChan, hop)
    /\ published' = Append(published, hop)
    /\ wpc' = "signal"
    /\ UNCHANGED <<confVars, traceVars, wg, cancelChan, traceResult, icmpOpen,
                   pkt, rcv, hop, consumer, probes, outcomes, opened, spawned>>

\* Lines 126-128: cancelChan <- true, which blocks while the buffer is full.
SignalCancel ==
    /\ wpc = "signal"
    /\ IF StopsTrace(rcv.err, rcv.response)
         THEN /\ cancelChan < CancelCap
              /\ cancelChan' = cancelChan + 1
         ELSE UNCHANGED cancelChan
    /\ wpc' = "exit"
    /\ UNCHANGED <<confVars, ResultChan, traceVars, wg, traceResult, icmpOpen,
                   pkt, rcv, hop, consumer, probes, published, outcomes,
                   opened, spawned>>

\* Line 108: the deferred wg.Done() as the goroutine ends.
WorkerDone ==
    /\ wpc = "exit"
    /\ wg' = wg - 1
    /\ wpc' = "none"
    /\ rcv' = NoReturn
    /\ hop' = NoHop
    /\ UNCHANGED <<confVars, ResultChan, traceVars, cancelChan, traceResult,
                   icmpOpen, pkt, consumer, probes, published, outcomes,
                   opened, spawned>>

WorkerStep ==
    \/ ListenPacket
    \/ SetReadDeadline
    \/ ReadFrom
    \/ ParseMessage
    \/ RecordHop
    \/ Publish
    \/ SignalCancel
    \/ WorkerDone

----------------------------------------------------------------------------
(* The consumer of the README's asynchronous example *)

\* case hop := <-ResultChan: if !hop.Reachable { "Trace completed." }
Consume ==
    /\ consumer = "watching"
    /\ ResultChan # <<>>
    /\ ResultChan' = Tail(ResultChan)
    /\ consumer' = IF Head(ResultChan).Reachable THEN "watching" ELSE "stopped"
    /\ UNCHANGED <<confVars, traceVars, wg, cancelChan, traceResult,
                   workerVars, probes, published, outcomes, opened, spawned>>

----------------------------------------------------------------------------

Next == TraceStep \/ WorkerStep \/ Consume

Spec == Init /\ [][Next]_vars

\* The Go scheduler runs every runnable goroutine; a listener read ends by a
\* packet or by its deadline.
FairSpec == Spec /\ WF_vars(TraceStep) /\ WF_vars(WorkerStep)

----------------------------------------------------------------------------
(* Synchronous use of one Tracer for several traces, one after the other,
   as in the README's synchronous example: nobody reads ResultChan. *)

\* A further call of Trace on the same Tracer after the previous one has
\* returned.  ResultChan is the Tracer's and keeps its content; the locals
\* of Trace are new, and the history starts again with the call.
TraceAgain ==
    /\ pc = "done"
    /\ wpc = "none"
    /\ consumer = "off"
    /\ pc' = "validate"
    /\ ttl' = 0
    /\ wg' = 0
    /\ cancelChan' = 0
    /\ traceResult' = <<>>
    /\ retResult' = <<>>
    /\ retErr' = "nil"
    /\ retPath' = "none"
    /\ outgoing' = NoConn
    /\ ttlSet' = FALSE
    /\ probes' = <<>>
    /\ published' = <<>>
    /\ outcomes' = <<>>
    /\ opened' = 0
    /\ spawned' = 0
    /\ iterations' = 0
    /\ UNCHANGED <<confVars, ResultChan, openConns, deferred, workerVars,
                   consumer>>

\* The hop a trace with StartTTL = 1 records when its first read times out.
TimeoutHop == MakeHop(1, "*", 0)

\* A Tracer from New with an address, used synchronously.  It is new, or
\* earlier traces on it have left hops in ResultChan: TraceAgain reaches
\* the second state from the first, one hop per trace.
SeqInit ==
    /\ Address = "localhost"
    /\ Port = DefaultPort
    /\ StartTTL = 1
    /\ MaxTTL \in 1..2
    /\ consumer = "off"
    /\ ResultChan \in {<<>>, [i \in 1..(ChanCap - 2) |-> TimeoutHop]}
    /\ NotStarted

\* An environment in which no call of the transmitter fails and no ICMP
\* message arrives: every listener read runs into its deadline or returns
\* bytes that do not parse.  Each trace then records one hop.
QuietNetwork ==
    /\ retErr = "nil"
    /\ pc \in {"go", "write", "wait"} => ttlSet
    /\ pkt.kind # "icmp"
    /\ \A j \in 1..Len(outcomes) : outcomes[j].kind \in {"timeout", "parse"}

SeqStep(A) == A /\ QuietNetwork'

SeqNext ==
    \/ SeqStep(Validate)
    \/ SeqStep(ResolveUDPAddr)
    \/ SeqStep(DialUDP)
    \/ SeqStep(SyscallConn)
    \/ SeqStep(Control)
    \/ SeqStep(GoListen)
    \/ SeqStep(Write)
    \/ SeqStep(Wait)
    \/ SeqStep(Advance)
    \/ SeqStep(Select)
    \/ SeqStep(ListenPacket)
    \/ SeqStep(SetReadDeadline)
    \/ SeqStep(ReadFrom)
    \/ SeqStep(ParseMessage)
    \/ SeqStep(RecordHop)
    \/ SeqStep(Publish)
    \/ SeqStep(SignalCancel)
    \/ SeqStep(WorkerDone)
    \/ TraceAgain

SeqSpec == SeqInit /\ [][SeqNext]_vars

----------------------------------------------------------------------------
TypeOK ==
    /\ pc \in {"validate", "resolve", "dial", "syscallconn", "control", "go",
               "write", "wait", "advance", "select", "done"}
    /\ wpc \in {"none", "listen", "deadline", "read", "parse", "record",
                "publish", "signal", "exit"}
    /\ wg \in 0..1
    /\ cancelChan \in 0..CancelCap
    /\ Len(ResultChan) <= ChanCap

----------------------------------------------------------------------------
(* Vocabulary of the properties *)

InvalidConfig == StartTTL < 1 \/ Address = "" \/ Port < 1 \/ Port > 65535

Returned == pc = "done"

\* Trace has returned and no worker of it is running any more.
TraceEnded == pc = "done" /\ wpc = "none"

ProbedTTLs == {probes[j].TTL : j \in 1..Len(probes)}

HopTTLs(hops) == {hops[i].TTL : i \in 1..Len(hops)}

ListenerFailures ==
    {"listen", "deadline", "timeout", "readfail", "parse", "unexpected"}

ListenerErrors ==
    {"listen packet error", "set read deadline error", "read from error",
     "parse message error", "unexpected ICMP message type received"}

\* a occurs in b as a subsequence: same hops, same order.
IsSubSeq(a, b) ==
    \E f \in [1..Len(a) -> 1..Len(b)] :
        /\ \A i \in 1..Len(a) : b[f[i]] = a[i]
        /\ \A i \in 1..Len(a) : \A j \in 1..Len(a) : i < j => f[i] < f[j]

----------------------------------------------------------------------------
(* C1 *)

\* C1: Trace called with StartTTL < 1, an empty Address or a Port outside
\* 1..65535 opens no socket, starts no worker, sends no probe, publishes
\* nothing, and returns a non-nil error with an empty TraceResult.
C1_InvalidConfigRejected ==
    InvalidConfig =>
        /\ opened = 0
        /\ spawned = 0
        /\ probes = <<>>
        /\ published = <<>>
        /\ Returned => (retErr # "nil" /\ retResult = <<>>)

C1_Witness ==
    /\ Returned
    /\ StartTTL >= 1
    /\ Address # ""
    /\ Port > 65535
    /\ retErr = "value of Port must be between 1 and 65535"

(* C2 *)

\* C2: with fair scheduling of Trace and of the worker (every read ends,
\* every publish completes) a Trace call eventually returns, and when
\* StartTTL <= MaxTTL it begins at most MaxTTL - StartTTL + 1 iterations.
C2_TraceTerminates ==
    /\ <>Returned
    /\ [](StartTTL <= MaxTTL => iterations <= MaxTTL - StartTTL + 1)

C2_Witness ==
    /\ Returned
    /\ retPath = "maxttl"
    /\ StartTTL < MaxTTL
    /\ iterations = MaxTTL - StartTTL + 1

(* C3 *)

\* C3 as stated: when the listener classifies the response at TTL k as
\* destination unreachable, no probe is sent for a TTL above k and, when
\* the trace has ended, the hop for k is recorded and published with
\* Reachable = false and Trace has returned the accumulated result with a
\* nil error.
C3_Original ==
    \A i \in 1..Len(outcomes) :
        outcomes[i].kind = "destUnreachable" =>
            LET k == outcomes[i].TTL
            IN  /\ \A t \in ProbedTTLs : t <= k
                /\ TraceEnded =>
                     /\ traceResult # <<>>
                     /\ traceResult[Len(traceResult)].TTL = k
                     /\ ~traceResult[Len(traceResult)].Reachable
                     /\ published = traceResult
                     /\ retErr = "nil"
                     /\ retResult = traceResult

\* C3 amended: the same, for a TTL k whose probe was written; when the write
\* of the probe for k fails, Trace returns the write error instead.
C3_UnreachableStopsTrace ==
    \A i \in 1..Len(outcomes) :
        outcomes[i].kind = "destUnreachable" =>
            LET k == outcomes[i].TTL
            IN  /\ \A t \in ProbedTTLs : t <= k
                /\ (Returned /\ k \in ProbedTTLs) =>
                     /\ wpc = "none"
                     /\ traceResult # <<>>
                     /\ traceResult[Len(traceResult)].TTL = k
                     /\ ~traceResult[Len(traceResult)].Reachable
                     /\ published = traceResult
                     /\ retErr = "nil"
                     /\ retResult = traceResult
                /\ (Returned /\ k \notin ProbedTTLs) => retErr = "write error"

C3_Witness ==
    /\ Returned
    /\ retPath = "cancel"
    /\ Len(retResult) >= 2
    /\ outcomes[Len(outcomes)].kind = "destUnreachable"
    /\ outcomes[Len(outcomes)].TTL < MaxTTL
    /\ outcomes[Len(outcomes)].TTL \in ProbedTTLs

(* C4 *)

\* C4: in the TraceResult returned by Trace the hops' TTLs are strictly
\* increasing, the first hop has TTL = StartTTL, no TTL appears twice, and
\* at most one TTL between the first and the last hop is missing.
C4_ReturnedTTLsAscending ==
    Returned =>
        /\ \A i \in 1..Len(retResult) : \A j \in 1..Len(retResult) :
               i < j => retResult[i].TTL < retResult[j].TTL
        /\ retResult # <<>> => retResult[1].TTL = StartTTL
        /\ Cardinality(HopTTLs(retResult)) = Len(retResult)
        /\ retResult # <<>> =>
               Cardinality((retResult[1].TTL..retResult[Len(retResult)].TTL)
                             \ HopTTLs(retResult)) <= 1

C4_Witness ==
    /\ Returned
    /\ Len(retResult) >= 3
    /\ ~retResult[Len(retResult)].Reachable

(* C5 *)

\* C5: a recorded hop has Reachable = true only if the listener classified
\* the response of that hop's iteration as time exceeded; the hops recorded
\* for destination unreachable, a read timeout or any other listener error
\* have Reachable = false.
C5_ReachableOnlyOnTimeExceeded ==
    \A i \in 1..Len(traceResult) :
        \E j \in 1..Len(outcomes) :
            /\ outcomes[j].TTL = traceResult[i].TTL
            /\ traceResult[i].Reachable <=> outcomes[j].kind = "timeExceeded"

C5_Witness ==
    /\ Len(traceResult) >= 2
    /\ traceResult[1].Reachable
    /\ ~traceResult[Len(traceResult)].Reachable
    /\ outcomes[Len(outcomes)].kind = "timeout"

(* C6 *)

\* C6: once Trace has returned, every hop of the returned TraceResult has
\* been published on ResultChan, in the order of the result.
C6_ReturnedHopsPublished ==
    Returned => IsSubSeq(retResult, published)

(* C7 *)

\* C7: when a trace that published hops has ended (here: has returned
\* without an error), the last hop it published on ResultChan has
\* Reachable = false, and a consumer that has read all of the channel has
\* seen that hop and stopped.
C7_LastPublishedUnreachable ==
    (TraceEnded /\ retErr = "nil" /\ published # <<>>) =>
        /\ ~published[Len(published)].Reachable
        /\ (consumer # "off" /\ ResultChan = <<>>) => consumer = "stopped"

(* C8 *)

\* C8: a failure of the transmitter at TTL k (resolve, dial, setting the
\* TTL option, write) makes Trace return a non-nil error with the hops of
\* the earlier TTLs; no probe is written on a socket whose TTL option was
\* not applied, and no later TTL is probed.
C8_TransmitterFailureAborts ==
    /\ \A j \in 1..Len(probes) : probes[j].ttlSet
    /\ (Returned /\ retPath \in {"resolve", "dial", "syscallconn", "control",
                                 "write"}) =>
           /\ retErr # "nil"
           /\ \A t \in ProbedTTLs : t < ttl
           /\ \A t \in StartTTL..(ttl - 1) : t \in HopTTLs(retResult)

(* C9 *)

\* C9: when a trace stops because of a listener outcome (the probe of the
\* last TTL was written and its listener failed), Trace returns a nil error
\* and every hop collected; no listener error is ever Trace's error.
C9_ListenerFailureIsSuccess ==
    /\ retErr \notin ListenerErrors
    /\ (/\ Returned
        /\ outcomes # <<>>
        /\ outcomes[Len(outcomes)].kind \in ListenerFailures
        /\ outcomes[Len(outcomes)].TTL \in ProbedTTLs) =>
           /\ retErr = "nil"
           /\ retResult = traceResult
           /\ Len(retResult) =
                Cardinality({j \in 1..Len(outcomes) :
                               outcomes[j].kind # "unexpected"})

C9_Witness ==
    /\ Returned
    /\ retPath = "cancel"
    /\ Len(retResult) >= 2
    /\ outcomes[Len(outcomes)].kind = "parse"

(* C10 *)

\* C10 as stated: a read timeout at a TTL k < MaxTTL whose probe was written
\* does not stop the trace: Trace goes on to the iteration of TTL k + 1.
C10_Original ==
    \A i \in 1..Len(outcomes) :
        (/\ outcomes[i].kind = "timeout"
         /\ outcomes[i].TTL < MaxTTL
         /\ outcomes[i].TTL \in ProbedTTLs
         /\ Returned) =>
            iterations >= outcomes[i].TTL - StartTTL + 2

\* C10 amended: a read timeout at TTL k records the hop of k with address
\* "*" and Reachable = false and stops the trace: no iteration is begun and
\* no probe is sent for a TTL above k, and when the probe of k was written
\* Trace returns the hops collected with a nil error.
C10_TimeoutStopsTrace ==
    \A i \in 1..Len(outcomes) :
        outcomes[i].kind = "timeout" =>
            LET k == outcomes[i].TTL IN
            /\ iterations = k - StartTTL + 1
            /\ \A t \in ProbedTTLs : t <= k
            /\ wpc \in {"publish", "signal", "exit", "none"} =>
                 traceResult[Len(traceResult)] =
                     [TTL |-> k, Address |-> "*", Reachable |-> FALSE]
            /\ (Returned /\ k \in ProbedTTLs) =>
                 /\ retErr = "nil"
                 /\ retResult = traceResult
                 /\ k < MaxTTL => retPath = "cancel"

C10_Witness ==
    /\ Returned
    /\ retPath = "cancel"
    /\ Len(retResult) >= 2
    /\ outcomes[Len(outcomes)].kind = "timeout"
    /\ outcomes[Len(outcomes)].TTL < MaxTTL


(* C12 *)

\* Trace has returned after the loop or by the stop signal: resolve, dial,
\* socket setup and write succeeded on every hop.
TransmitterSucceeded ==
    Returned /\ ~InvalidConfig /\ retPath \in {"cancel", "maxttl"}

Recorded(j) == j < Len(outcomes) \/ wpc \in {"signal", "exit", "none"}

HopsOfTTL(hops, k) == {i \in 1..Len(hops) : hops[i].TTL = k}

\* C13: an iteration whose listener result is "unexpected type" adds no hop
\* to the result and publishes nothing; every other listener result adds
\* exactly one hop for that TTL, and after a read timeout, a parse failure
\* or a listener socket failure that hop has Address "*" and
\* Reachable = false.
C13_OneHopUnlessUnexpected ==
    \A j \in 1..Len(outcomes) :
        LET k == outcomes[j].TTL
            kind == outcomes[j].kind
        IN  /\ kind = "unexpected" =>
                /\ HopsOfTTL(traceResult, k) = {}
                /\ HopsOfTTL(published, k) = {}
            /\ (kind # "unexpected" /\ Recorded(j)) =>
                /\ Cardinality(HopsOfTTL(traceResult, k)) = 1
                /\ Cardinality(HopsOfTTL(published, k)) = 1
            /\ (kind \in {"listen", "deadline", "timeout", "readfail",
                          "parse"} /\ Recorded(j)) =>
                \A i \in HopsOfTTL(traceResult, k) :
                    traceResult[i].Address = "*" /\ ~traceResult[i].Reachable

C13_Witness ==
    /\ TraceEnded
    /\ Len(outcomes) = 3
    /\ outcomes[3].kind = "unexpected"
    /\ Len(traceResult) = 2
    /\ Len(published) = 2

(* C14 *)

\* C14: every probe sent and every hop recorded has a TTL in
\* StartTTL..MaxTTL; a configuration with StartTTL > MaxTTL sends no probe
\* and returns an empty result.
C14_TTLWithinConfiguredRange ==
    /\ \A t \in ProbedTTLs : StartTTL <= t /\ t <= MaxTTL
    /\ \A t \in HopTTLs(traceResult) : StartTTL <= t /\ t <= MaxTTL
    /\ (StartTTL > MaxTTL /\ Returned) => (probes = <<>> /\ retResult = <<>>)

(* C15 *)

\* C15: whenever the probe datagram of an iteration is written, the
\* listener's ICMP socket of that iteration is open.
C15_ListeningBeforeProbe ==
    [][probes' # probes => icmpOpen]_vars

(* C16 *)

\* C16: at most one listener worker runs at any moment, a worker is started
\* and a probe is prepared only when the worker of the previous TTL has
\* finished, and each TTL is probed at most once, in increasing order.
C16_HopsAreSequential ==
    /\ wg <= 1
    /\ wg = (IF wpc = "none" THEN 0 ELSE 1)
    /\ pc \in {"resolve", "dial", "syscallconn", "control", "go"} =>
           /\ wpc = "none"
           /\ Len(outcomes) = Len(probes)
    /\ \A i \in 1..Len(probes) : \A j \in 1..Len(probes) :
           i < j => probes[i].TTL < probes[j].TTL
    /\ Len(probes) <= spawned
    /\ spawned <= Len(probes) + 1

C16_Witness ==
    /\ pc = "go"
    /\ Len(probes) = 2
    /\ spawned = 2

(* C17 *)

\* C17: at most one transmitting socket is open at any time, and none is
\* open after Trace has returned.
C17_TransmitSocketClosedPerHop ==
    /\ Cardinality(openConns) <= 1
    /\ Returned => openConns = {}

(* C18 *)

\* C18: in the TraceResult returned by Trace every hop except the last has
\* Reachable = true.
C18_OnlyLastHopUnreachable ==
    Returned =>
        \A i \in 1..Len(retResult) : i < Len(retResult) => retResult[i].Reachable

C18_Witness ==
    /\ Returned
    /\ Len(retResult) = 3
    /\ ~retResult[3].Reachable
    /\ retResult[3].Address = "10.0.0.1"

(* C19 *)

\* C19: when Trace has returned, no listener worker started by the call is
\* running, and nothing is appended to its result or published afterwards.
C19_NoWorkerAfterReturn ==
    [][Returned =>
         /\ wpc = "none"
         /\ traceResult' = traceResult
         /\ published' = published]_vars

(* C20 *)

\* C20: whenever a worker is about to send on cancelChan the channel is
\* empty, and once a stop signal is in the channel the orchestrator starts
\* no further worker.
C20_StopSignalNeverBlocks ==
    /\ (/\ wpc = "signal"
        /\ (rcv.err # "nil" \/ rcv.response = 3)) => cancelChan = 0
    /\ cancelChan > 0 =>
           pc \in {"write", "wait", "advance", "select", "done"}

C20_Witness ==
    /\ wpc = "exit"
    /\ cancelChan = 1
    /\ Len(outcomes) = 3
    /\ pc = "wait"


(* C11 *)

\* C11: whenever the worker is about to publish a hop, in a single trace or
\* in any sequence of Trace calls on a Tracer used only synchronously,
\* ResultChan has a free slot.
C11_PublishNeverBlocks ==
    wpc = "publish" => Len(ResultChan) < ChanCap

====
